---- MODULE Spec2Model ----
(***************************************************************************)
(* Sidecar supervisor of web/src-tauri/src/main.rs: the shared             *)
(* RuntimeProcessState behind the manager's mutex, the four commands       *)
(* (start, stop, status, diagnostics), the reconciler/watchdog and the     *)
(* diagnostic event log with its backing file.                             *)
(*                                                                         *)
(* A command runs with the mutex held from its first to its last line, so  *)
(* each command is one atomic action.  The operating system is the         *)
(* environment: a child may exit at any time, a spawn may fail, a port may *)
(* never open, try_wait may fail, the clock advances.  Inside a command    *)
(* those outcomes are drawn from an oracle record (`env`).                 *)
(*                                                                         *)
(* Functions of the source that take `&mut RuntimeProcessState` are        *)
(* operators from a "world" record to a world record.  A world holds the   *)
(* state struct (`s`), the file system (`fs`), the live processes no       *)
(* handle refers to (`orphans`), the oracle (`env`), the clock reading     *)
(* (`now`) and the logs of what the command did so far (`spawned`,         *)
(* `killed`, `logged`, `waited`), which the properties read.               *)
(***************************************************************************)
EXTENDS Integers, Sequences, FiniteSets, TLC

VARIABLES
    state,        \* RuntimeProcessState, the value guarded by the mutex
    fs,           \* path -> content of the diagnostics file at that path
    orphans,      \* services with a live process that no handle refers to
    now,          \* the wall clock, in ms (now_ms)
    restart_log,  \* history: clock readings of the watchdog restarts of this run
    last,         \* the command that has just returned, and what it returned
    lock,         \* the holder of the mutex of DesktopRuntimeManager, if any
    callers       \* caller -> where its command stands

vars == <<state, fs, orphans, now, restart_log, last, lock, callers>>

\* What only a step of a caller changes.
threads == <<lock, callers>>

\* Option<T>: None is the empty tuple, Some(x) the tuple of x.
None == << >>
Some(x) == <<x>>
Unwrap(o) == o[1]
UnwrapOr(o, default) == IF o = None THEN default ELSE o[1]
\* a.or(b)
OrElse(a, b) == IF a # None THEN a ELSE b

\* `let x = value; body`: the body with x bound to the value.
Bind(value, Body(_)) == Body(value)

(* ------------------------------ bounds -------------------------------- *)

\* Steps are taken only while the event buffer is at most this long.
MaxLog == 2
\* The clock advances at most this many times.
MaxTicks == 1
\* Watchdog runs: steps are taken only while the event buffer is at most
\* this long, and the clock advances at most this many times.
MaxLogW == 20
MaxTicksW == 2
\* Event log runs: steps are taken only while the buffer holds at most this
\* many events that the run itself has logged.
MaxNewL == 4
MaxCallers == 2
MaxLogC == 2
MaxLogG == 22
MaxWindowsG == 1

(* ------------------------- program constants -------------------------- *)

MAX_EVENTS == 200
RESTART_WINDOW_MS == 90000
RESTART_LIMIT == 6
DEFAULT_WEB_PORT == 3000
DEFAULT_BACKEND_PORT == 8080
DEFAULT_MONGO_PORT == 27017
DEFAULT_LIMIT == 80
MIN_LIMIT == 1
MAX_LIMIT == 300
RESTART_WAIT_S == 30
START_WAIT_S == 35

\* One step of the model's clock.
TickMs == RESTART_WINDOW_MS \div 2

Services == {"web", "backend", "mongo"}

(* ------------------------------ RuntimeMode --------------------------- *)

LocalFullstack == "LocalFullstack"
RemoteSlim == "RemoteSlim"

\* str::trim on the raw strings the model feeds in.
Trim(raw) ==
    CASE raw = " remote_slim " -> "remote_slim"
      [] raw = "   " -> ""
      [] raw = " " -> ""
      [] OTHER -> raw

from_raw(value) ==
    IF Trim(value) \in {"desktop_remote_slim", "remote_slim"}
    THEN RemoteSlim
    ELSE LocalFullstack

as_str(mode) ==
    IF mode = LocalFullstack THEN "local_fullstack" ELSE "remote_slim"

(* ------------------------------ state --------------------------------- *)

\* impl Default for RuntimeProcessState
DefaultState ==
    [ running |-> FALSE,
      mode |-> LocalFullstack,
      web |-> None,
      backend |-> None,
      mongo |-> None,
      started_at_ms |-> None,
      last_error |-> None,
      web_port |-> DEFAULT_WEB_PORT,
      backend_port |-> DEFAULT_BACKEND_PORT,
      mongo_port |-> DEFAULT_MONGO_PORT,
      backend_url |-> "http://127.0.0.1:8080",
      auto_restart |-> FALSE,
      restart_count |-> 0,
      last_restart_ms |-> None,
      launch_config |-> None,
      events |-> << >>,
      diagnostics_path |-> None ]

\* A handle is an Option<Child>.  A Child is modelled by what its next
\* try_wait reports: "live" (Ok(None)), "exited" (Ok(Some(status))) or
\* "waitfail" (Err: the child is still running, the check fails).
Live == Some("live")
Exited == Some("exited")
WaitFail == Some("waitfail")

\* now_ms
now_ms(w) == w.now

World(s, f, o, e, t, r) ==
    [ s |-> s, fs |-> f, orphans |-> o, env |-> e, now |-> t, rlog |-> r,
      spawned |-> << >>, killed |-> << >>, logged |-> << >>, waited |-> << >> ]

Set(w, field, value) == [w EXCEPT !.s = [@ EXCEPT ![field] = value]]

(* ------------------------------ event log ----------------------------- *)

\* DesktopRuntimeDiagEvent without ts_ms: no property reads the time stamp.
\* level and source are passed as lower-case literals without blanks, which
\* trim().to_lowercase() leaves as they are.
DiagEvent(level, source, message) ==
    [level |-> level, source |-> source, message |-> message]

Home == "/home/user"

\* user_home_dir: HOME is set
user_home_dir == Home

expand_tilde_path(raw) ==
    LET text == Trim(raw)
    IN  IF text = "~" THEN user_home_dir ELSE text

diagnostics_path_for_data_dir(data_dir_hint) ==
    LET root == IF data_dir_hint # None /\ Trim(Unwrap(data_dir_hint)) # ""
                THEN expand_tilde_path(Unwrap(data_dir_hint))
                ELSE user_home_dir \o "/.project-qa-assistant"
    IN  root \o "/runtime/runtime-events.json"

\* The diagnostics files the model's inputs can name.
DiagPaths ==
    { diagnostics_path_for_data_dir(None),
      diagnostics_path_for_data_dir(Some("/data")) }

\* Fault: the cap drops the newest entries instead of the oldest.
Drain_keeps_oldest(rows) ==
    IF Len(rows) > MAX_EVENTS THEN SubSeq(rows, 1, MAX_EVENTS) ELSE rows

\* rows.drain(0..trim): keep the last MAX_EVENTS entries
Drain(rows) ==
    IF Len(rows) > MAX_EVENTS
    THEN SubSeq(rows, Len(rows) - MAX_EVENTS + 1, Len(rows))
    ELSE rows

\* fs[path] is the array of events the file at path parses to; a file that
\* is missing or does not parse reads as no events.
load_runtime_events_from_path(w, path) == Drain(w.fs[path])

\* Fault: the file is written only while the buffer is below the cap.
persist_runtime_events_below_cap(w) ==
    IF w.s.diagnostics_path = None THEN w
    ELSE IF w.env.write_ok /\ Len(w.s.events) < MAX_EVENTS
         THEN [w EXCEPT !.fs[Unwrap(w.s.diagnostics_path)] = w.s.events]
         ELSE w

\* fs::write is best effort: when it fails the file keeps its content.
persist_runtime_events(w) ==
    IF w.s.diagnostics_path = None THEN w
    ELSE IF w.env.write_ok
         THEN [w EXCEPT !.fs[Unwrap(w.s.diagnostics_path)] = w.s.events]
         ELSE w

ensure_diagnostics_state(w, data_dir_hint) ==
    LET fallback == UnwrapOr(w.s.diagnostics_path,
                             diagnostics_path_for_data_dir(None))
        next_path == IF data_dir_hint # None
                     THEN IF Trim(Unwrap(data_dir_hint)) = ""
                          THEN fallback
                          ELSE diagnostics_path_for_data_dir(data_dir_hint)
                     ELSE fallback
        changed == w.s.diagnostics_path # Some(next_path)
        loaded == load_runtime_events_from_path(w, next_path)
        merged == IF w.s.events # << >> THEN Drain(loaded \o w.s.events) ELSE loaded
    IN  IF changed
        THEN persist_runtime_events(
                 Set(Set(w, "events", merged), "diagnostics_path", Some(next_path)))
        ELSE IF w.s.events = << >> /\ w.s.diagnostics_path # None
             THEN Set(w, "events",
                      load_runtime_events_from_path(w, Unwrap(w.s.diagnostics_path)))
             ELSE w

push_runtime_event(w, level, source, message) ==
    Bind(ensure_diagnostics_state(w, None), LAMBDA w1 :
    Bind(DiagEvent(level, source, message), LAMBDA event :
        persist_runtime_events(
            [Set(w1, "events", Drain(Append(w1.s.events, event)))
                EXCEPT !.logged = Append(@, event)])))

(* ------------------------------ processes ----------------------------- *)

\* kill and wait; the kill of a child that has exited does nothing.
stop_child(w, svc) ==
    IF w.s[svc] # None
    THEN [Set(w, svc, None) EXCEPT !.killed = Append(@, svc)]
    ELSE w

\* Fault: clear_launch_state without `state.auto_restart = false`.
clear_launch_state_keeps_auto_restart(w) ==
    [Set(Set(Set(w, "restart_count", 0),
             "last_restart_ms", None),
         "launch_config", None)
        EXCEPT !.rlog = << >>]

\* rlog is the history of this run's restarts; it is reset with the counters.
clear_launch_state(w) ==
    [Set(Set(Set(Set(w, "auto_restart", FALSE),
                 "restart_count", 0),
             "last_restart_ms", None),
         "launch_config", None)
        EXCEPT !.rlog = << >>]

\* Fault: stop_processes without `stop_child(&mut state.mongo)`.
stop_processes_skips_mongo(w) ==
    Set(stop_child(stop_child(w, "web"), "backend"), "running", FALSE)

stop_processes(w) ==
    Set(stop_child(stop_child(stop_child(w, "web"), "backend"), "mongo"),
        "running", FALSE)

\* Fault: stop_all without `clear_launch_state(state)`.
stop_all_keeps_launch_state(w) == stop_processes(w)

stop_all(w) == clear_launch_state(stop_processes(w))

\* Fault: the backend is taken to be required in every mode.
is_backend_required_in_every_mode(config) == TRUE

is_backend_required(config) == config.mode = LocalFullstack

is_mongo_required(config) ==
    config.mode = LocalFullstack /\ config.mongo_bin # None

\* Fault: recompute_running without the database check.
recompute_running_ignores_mongo(s) ==
    IF s.launch_config = None THEN FALSE
    ELSE IF s.web = None THEN FALSE
    ELSE IF is_backend_required(Unwrap(s.launch_config)) /\ s.backend = None THEN FALSE
    ELSE TRUE

recompute_running(s) ==
    IF s.launch_config = None THEN FALSE
    ELSE IF s.web = None THEN FALSE
    ELSE IF is_backend_required(Unwrap(s.launch_config)) /\ s.backend = None THEN FALSE
    ELSE IF is_mongo_required(Unwrap(s.launch_config)) /\ s.mongo = None THEN FALSE
    ELSE TRUE

\* Command::spawn for one service: Ok(child) or Err, as the oracle says.
SpawnOk(w, svc) == w.env.spawn_fail # Some(svc)

\* wait_for_port(port of svc, timeout): whether the port opened in time, as
\* the oracle says.
wait_for_port(w, svc, timeout_s) == svc \notin w.env.unready

\* The log of the readiness waits of this command.
Waited(w, svc, timeout_s, ok) ==
    [w EXCEPT !.waited = Append(@, [svc |-> svc, timeout_s |-> timeout_s, ok |-> ok])]

Spawned(w, svc) == [w EXCEPT !.spawned = Append(@, svc)]

\* spawn_mongo / spawn_backend / spawn_web: [ok, child, w].  The child is
\* None where the function returns Ok(None).
spawn_mongo(w, config) ==
    IF config.mode # LocalFullstack \/ config.mongo_bin = None
    THEN [ok |-> TRUE, child |-> None, err |-> "", w |-> w]
    ELSE IF SpawnOk(w, "mongo")
         THEN [ok |-> TRUE, child |-> Live, err |-> "", w |-> Spawned(w, "mongo")]
         ELSE [ok |-> FALSE, child |-> None,
               err |-> "failed to start mongo sidecar: os error", w |-> w]

spawn_backend(w, config) ==
    IF config.mode # LocalFullstack
    THEN [ok |-> TRUE, child |-> None, err |-> "", w |-> w]
    ELSE IF SpawnOk(w, "backend")
         THEN [ok |-> TRUE, child |-> Live, err |-> "", w |-> Spawned(w, "backend")]
         ELSE [ok |-> FALSE, child |-> None,
               err |-> "failed to start backend sidecar: os error", w |-> w]

spawn_web(w, config) ==
    IF SpawnOk(w, "web")
    THEN [ok |-> TRUE, child |-> Live, err |-> "", w |-> Spawned(w, "web")]
    ELSE [ok |-> FALSE, child |-> None,
          err |-> "failed to start web sidecar: os error", w |-> w]

\* status.code() of every exited child of the model.
ExitCode == Some(1)

describe_exit(name, code) ==
    IF code # None
    THEN name \o " exited with code " \o ToString(Unwrap(code))
    ELSE name \o " exited"

\* One of the three blocks of poll_process_exits.  acc = [w, exited].
\* A handle dropped after a failed try_wait leaves its process running.
PollChild(acc, svc) ==
    LET child == acc.w.s[svc]
    IN  IF child = Exited
        THEN [w |-> Set(acc.w, svc, None),
              exited |-> Append(acc.exited,
                  [source |-> svc, message |-> describe_exit(svc, ExitCode)])]
        ELSE IF child = WaitFail
        THEN [w |-> [Set(acc.w, svc, None) EXCEPT !.orphans = @ \cup {svc}],
              exited |-> Append(acc.exited,
                  [source |-> svc,
                   message |-> svc \o " process status check failed"])]
        ELSE acc

poll_process_exits(w) ==
    PollChild(PollChild(PollChild([w |-> w, exited |-> << >>], "web"),
                        "backend"),
              "mongo")

(* ------------------------------ watchdog ------------------------------ *)

\* u32::saturating_add(1).  The count stays far below u32::MAX, where the
\* addition would saturate.
saturating_inc(n) == n + 1

\* u64::saturating_sub
saturating_sub(a, b) == IF a > b THEN a - b ELSE 0

\* Fault: the web sidecar is respawned whether or not its handle is present.
restart_web_unconditionally(r, config) ==
    Bind(push_runtime_event(r.w, "warn", "watchdog", "Restarting web sidecar"),
         LAMBDA w1 :
    Bind(spawn_web(w1, config), LAMBDA sp :
        IF ~sp.ok THEN [r EXCEPT !.w = w1, !.err = Some(sp.err)]
        ELSE IF ~wait_for_port(sp.w, "web", RESTART_WAIT_S)
        THEN [r EXCEPT !.w = [Waited(Set(sp.w, "web", None),
                                     "web", RESTART_WAIT_S, FALSE)
                                 EXCEPT !.orphans = @ \cup {"web"}],
                       !.err = Some("web did not become ready after restart")]
        ELSE [r EXCEPT !.w = Waited(Set(sp.w, "web", sp.child),
                                    "web", RESTART_WAIT_S, TRUE),
                       !.restarted = Append(@, "web")]))

\* The steps of restart_missing_processes work on r = [w, err, restarted];
\* err is Some(message) once the function has returned Err.
\* if state.web.is_none() { ... }
restart_web(r, config) ==
    IF r.w.s.web # None THEN r
    ELSE Bind(push_runtime_event(r.w, "warn", "watchdog", "Restarting web sidecar"),
              LAMBDA w1 :
         Bind(spawn_web(w1, config), LAMBDA sp :
             IF ~sp.ok THEN [r EXCEPT !.w = w1, !.err = Some(sp.err)]
             ELSE IF ~wait_for_port(sp.w, "web", RESTART_WAIT_S)
             \* state.web = None drops the Child; the process is not killed
             THEN [r EXCEPT !.w = [Waited(Set(sp.w, "web", None),
                                          "web", RESTART_WAIT_S, FALSE)
                                      EXCEPT !.orphans = @ \cup {"web"}],
                            !.err = Some("web did not become ready after restart")]
             ELSE [r EXCEPT !.w = Waited(Set(sp.w, "web", sp.child),
                                         "web", RESTART_WAIT_S, TRUE),
                            !.restarted = Append(@, "web")]))

\* if is_backend_required(&config) && state.backend.is_none() { ... }
restart_backend(r, config) ==
    IF ~(is_backend_required(config) /\ r.w.s.backend = None) THEN r
    ELSE Bind(push_runtime_event(r.w, "warn", "watchdog", "Restarting backend sidecar"),
              LAMBDA w1 :
         Bind(spawn_backend(w1, config), LAMBDA sp :
             IF ~sp.ok THEN [r EXCEPT !.w = w1, !.err = Some(sp.err)]
             ELSE IF ~wait_for_port(sp.w, "backend", RESTART_WAIT_S)
             \* state.backend = None drops the Child; the process is not killed
             THEN [r EXCEPT !.w = [Waited(Set(sp.w, "backend", None),
                                          "backend", RESTART_WAIT_S, FALSE)
                                      EXCEPT !.orphans = @ \cup {"backend"}],
                            !.err = Some("backend did not become ready after restart")]
             ELSE [r EXCEPT !.w = Waited(Set(sp.w, "backend", sp.child),
                                         "backend", RESTART_WAIT_S, TRUE),
                            !.restarted = Append(@, "backend")]))

\* if is_mongo_required(&config) && state.mongo.is_none() { ... }
restart_mongo(r, config) ==
    IF ~(is_mongo_required(config) /\ r.w.s.mongo = None) THEN r
    ELSE Bind(push_runtime_event(r.w, "warn", "watchdog", "Restarting mongo sidecar"),
              LAMBDA w1 :
         Bind(spawn_mongo(w1, config), LAMBDA sp :
             IF ~sp.ok THEN [r EXCEPT !.w = w1, !.err = Some(sp.err)]
             ELSE [r EXCEPT !.w = Set(sp.w, "mongo", sp.child),
                            !.restarted = IF sp.child # None
                                          THEN Append(@, "mongo") ELSE @]))

RECURSIVE JoinWith(_, _)
\* parts.join(sep)
JoinWith(parts, sep) ==
    IF parts = << >> THEN ""
    ELSE IF Len(parts) = 1 THEN parts[1]
    ELSE parts[1] \o sep \o JoinWith(Tail(parts), sep)

\* if !restarted.is_empty() { ... }
count_restart(r) ==
    IF r.restarted = << >> THEN r
    ELSE Bind(Set(Set(r.w, "restart_count", saturating_inc(r.w.s.restart_count)),
                  "last_restart_ms", Some(now_ms(r.w))),
              LAMBDA w1 :
         Bind([w1 EXCEPT !.rlog = Append(@, now_ms(r.w))], LAMBDA w2 :
             [r EXCEPT !.w = push_runtime_event(w2, "info", "watchdog",
                  "Recovered sidecars: " \o JoinWith(r.restarted, ", "))]))

\* Fault: a failed step does not end the pass.
restart_missing_processes_goes_on(w) ==
    IF w.s.launch_config = None
    THEN [w |-> w, err |-> None, restarted |-> << >>]
    ELSE Bind(Unwrap(w.s.launch_config), LAMBDA config :
         Bind(restart_web([w |-> w, err |-> None, restarted |-> << >>], config),
              LAMBDA r1 :
         Bind(restart_backend(r1, config), LAMBDA r2 :
         Bind(restart_mongo(r2, config), LAMBDA r3 :
             IF r3.err = None THEN count_restart(r3) ELSE r3))))

restart_missing_processes(w) ==
    IF w.s.launch_config = None
    THEN [w |-> w, err |-> None, restarted |-> << >>]
    ELSE Bind(Unwrap(w.s.launch_config), LAMBDA config :
         Bind(restart_web([w |-> w, err |-> None, restarted |-> << >>], config),
              LAMBDA r1 :
         Bind(IF r1.err = None THEN restart_backend(r1, config) ELSE r1, LAMBDA r2 :
         Bind(IF r2.err = None THEN restart_mongo(r2, config) ELSE r2, LAMBDA r3 :
             IF r3.err = None THEN count_restart(r3) ELSE r3))))

RECURSIVE PushExited(_, _)
\* for (source, message) in &exited { push_runtime_event(state, "warn", ...) }
PushExited(w, exited) ==
    IF exited = << >> THEN w
    ELSE PushExited(push_runtime_event(w, "warn", exited[1].source, exited[1].message),
                    Tail(exited))

Messages(exited) == [i \in 1..Len(exited) |-> exited[i].message]

\* let recently_restarted = ...
recently_restarted(w) ==
    IF w.s.last_restart_ms = None THEN FALSE
    ELSE saturating_sub(now_ms(w), Unwrap(w.s.last_restart_ms)) < RESTART_WINDOW_MS

\* Fault: the test leaves out `state.auto_restart`.
should_attempt_restart_whatever_the_switch(w, exited) ==
    /\ w.s.launch_config # None
    /\ (exited # << >> \/ ~recompute_running(w.s))

\* let should_attempt_restart = ...
should_attempt_restart(w, exited) ==
    /\ w.s.auto_restart
    /\ w.s.launch_config # None
    /\ (exited # << >> \/ ~recompute_running(w.s))

BreakerMessage == "Auto-restart disabled after repeated sidecar failures"

\* Fault: the breaker compares with `>` where the code has `>=`.
attempt_restart_one_more(w) ==
    IF recently_restarted(w) /\ w.s.restart_count > RESTART_LIMIT
    THEN Set(push_runtime_event(Set(w, "auto_restart", FALSE),
                                "error", "watchdog", BreakerMessage),
             "last_error", Some(BreakerMessage))
    ELSE Bind(restart_missing_processes(w), LAMBDA r :
             IF r.err # None
             THEN Bind("Auto-restart failed: " \o Unwrap(r.err), LAMBDA message :
                      Set(push_runtime_event(r.w, "error", "watchdog", message),
                          "last_error", Some(message)))
             ELSE r.w)

\* the body of `if should_attempt_restart { ... }`
attempt_restart(w) ==
    IF recently_restarted(w) /\ w.s.restart_count >= RESTART_LIMIT
    THEN Set(push_runtime_event(Set(w, "auto_restart", FALSE),
                                "error", "watchdog", BreakerMessage),
             "last_error", Some(BreakerMessage))
    ELSE Bind(restart_missing_processes(w), LAMBDA r :
             IF r.err # None
             THEN Bind("Auto-restart failed: " \o Unwrap(r.err), LAMBDA message :
                      Set(push_runtime_event(r.w, "error", "watchdog", message),
                          "last_error", Some(message)))
             ELSE r.w)

reconcile_runtime_state(w) ==
    Bind(poll_process_exits(w), LAMBDA p :
    Bind(IF p.exited # << >>
         THEN Set(PushExited(p.w, p.exited), "last_error",
                  Some(JoinWith(Messages(p.exited), " | ")))
         ELSE p.w,
         LAMBDA w1 :
    Bind(IF should_attempt_restart(w1, p.exited) THEN attempt_restart(w1) ELSE w1,
         LAMBDA w2 :
        Set(w2, "running", recompute_running(w2.s)))))

\* c.id(): the model does not tell process ids apart
Pid(handle) == IF handle = None THEN None ELSE Some("pid")

snapshot_status(s) ==
    [ running |-> s.running,
      mode |-> as_str(s.mode),
      web_pid |-> Pid(s.web),
      backend_pid |-> Pid(s.backend),
      mongo_pid |-> Pid(s.mongo),
      started_at_ms |-> s.started_at_ms,
      last_error |-> s.last_error,
      web_port |-> s.web_port,
      backend_port |-> s.backend_port,
      mongo_port |-> s.mongo_port,
      backend_url |-> s.backend_url,
      auto_restart |-> s.auto_restart,
      restart_count |-> s.restart_count,
      last_restart_ms |-> s.last_restart_ms,
      diagnostics_path |-> s.diagnostics_path ]

(* ------------------------------ launch plan --------------------------- *)

\* RuntimeProfile::default()
DefaultProfile ==
    [ mode |-> None, backend_url |-> None,
      local_ports |-> None, data_dir |-> None ]

\* The profile files on disk.  Any other path has no readable profile.
RemoteProfilePath == "/profiles/remote.json"
LocalProfilePath == "/profiles/local.json"
ProfileFile(path) ==
    CASE path = RemoteProfilePath ->
             [ mode |-> Some("remote_slim"),
               backend_url |-> Some("https://backend.example"),
               local_ports |-> Some([web |-> Some(4000), backend |-> None, mongo |-> None]),
               data_dir |-> Some("/data") ]
      [] path = LocalProfilePath ->
             [ mode |-> None,
               backend_url |-> Some("https://ignored.example"),
               local_ports |-> Some([web |-> None, backend |-> Some(9090),
                                     mongo |-> Some(27018)]),
               data_dir |-> None ]
      [] OTHER -> DefaultProfile

\* normalize_path, then read and parse the file
load_runtime_profile(profile_path) ==
    IF profile_path = None \/ Trim(Unwrap(profile_path)) = ""
    THEN DefaultProfile
    ELSE ProfileFile(Trim(Unwrap(profile_path)))

\* LocalPorts::default()
DefaultPorts == [web |-> None, backend |-> None, mongo |-> None]

\* req.mongo_bin.or_else(env MONGOD_BIN).and_then(trim, empty -> None)
resolve_mongo_bin(req, osenv) ==
    LET value == OrElse(req.mongo_bin, osenv.MONGOD_BIN)
    IN  IF value = None \/ Trim(Unwrap(value)) = "" THEN None
        ELSE Some(Trim(Unwrap(value)))

\* Fault: a backend URL in the profile wins in every mode.
resolve_launch_prefers_profile_url(req, osenv) ==
    LET profile_path == UnwrapOr(OrElse(req.profile_path, osenv.RUNTIME_PROFILE_PATH), "")
        profile == load_runtime_profile(Some(profile_path))
        mode_raw == UnwrapOr(OrElse(OrElse(req.mode, osenv.APP_RUNTIME_MODE), profile.mode),
                             "local_fullstack")
        mode == from_raw(mode_raw)
        ports == UnwrapOr(profile.local_ports, DefaultPorts)
        backend_port == UnwrapOr(ports.backend, DEFAULT_BACKEND_PORT)
    IN  [ mode |-> mode,
          web_port |-> UnwrapOr(ports.web, DEFAULT_WEB_PORT),
          backend_port |-> backend_port,
          mongo_port |-> UnwrapOr(ports.mongo, DEFAULT_MONGO_PORT),
          backend_url |-> IF mode = RemoteSlim \/ profile.backend_url # None
                          THEN UnwrapOr(profile.backend_url, "http://127.0.0.1:8080")
                          ELSE "http://127.0.0.1:" \o ToString(backend_port),
          mongo_bin |-> resolve_mongo_bin(req, osenv),
          data_dir |-> profile.data_dir ]

\* The plan of one start: lines 694-770 without the workspace check.  Of
\* RuntimeLaunchConfig the fields that only reach a child's command line
\* (session id, profile path, web_dev, python_bin, directories) are left out.
resolve_launch(req, osenv) ==
    LET profile_path == UnwrapOr(OrElse(req.profile_path, osenv.RUNTIME_PROFILE_PATH), "")
        profile == load_runtime_profile(Some(profile_path))
        mode_raw == UnwrapOr(OrElse(OrElse(req.mode, osenv.APP_RUNTIME_MODE), profile.mode),
                             "local_fullstack")
        mode == from_raw(mode_raw)
        ports == UnwrapOr(profile.local_ports, DefaultPorts)
        backend_port == UnwrapOr(ports.backend, DEFAULT_BACKEND_PORT)
    IN  [ mode |-> mode,
          web_port |-> UnwrapOr(ports.web, DEFAULT_WEB_PORT),
          backend_port |-> backend_port,
          mongo_port |-> UnwrapOr(ports.mongo, DEFAULT_MONGO_PORT),
          backend_url |-> IF mode = RemoteSlim
                          THEN UnwrapOr(profile.backend_url, "http://127.0.0.1:8080")
                          ELSE "http://127.0.0.1:" \o ToString(backend_port),
          mongo_bin |-> resolve_mongo_bin(req, osenv),
          data_dir |-> profile.data_dir ]

(* ------------------------------ commands ------------------------------ *)

\* What a command hands back: the world it leaves, Ok or Err(error), and
\* the return statement it left by.
Return(w, ok, error, path) == [w |-> w, ok |-> ok, error |-> error, path |-> path]

\* Fault: the success path without `guard.last_error = None`.
await_ready_keeps_last_error(w0, launch) ==
    Bind(wait_for_port(w0, "web", START_WAIT_S), LAMBDA web_ok :
    Bind(IF is_backend_required(launch)
         THEN wait_for_port(w0, "backend", START_WAIT_S) ELSE TRUE,
         LAMBDA backend_ok :
    Bind(IF is_backend_required(launch)
         THEN Waited(Waited(w0, "web", START_WAIT_S, web_ok),
                     "backend", START_WAIT_S, backend_ok)
         ELSE Waited(w0, "web", START_WAIT_S, web_ok),
         LAMBDA w :
        IF ~web_ok \/ ~backend_ok
        THEN Bind(IF ~web_ok /\ ~backend_ok
                  THEN "web and backend did not become ready in time"
                  ELSE IF ~web_ok
                  THEN "web did not become ready in time"
                  ELSE "backend did not become ready in time",
                  LAMBDA reason :
                 Return(Set(push_runtime_event(stop_all(w), "error", "runtime", reason),
                            "last_error", Some(reason)),
                        FALSE, reason, "not_ready"))
        ELSE Bind(Set(Set(Set(w, "running", TRUE),
                          "mode", launch.mode),
                      "started_at_ms", Some(now_ms(w))),
                  LAMBDA w1 :
             Bind(Set(Set(Set(Set(w1, "web_port", launch.web_port),
                              "backend_port", launch.backend_port),
                          "mongo_port", launch.mongo_port),
                      "backend_url", launch.backend_url),
                  LAMBDA w2 :
                 Return(push_runtime_event(w2, "info", "runtime",
                                           "Runtime started successfully"),
                        TRUE, "", "started"))))))

\* Lines 804-840: the readiness waits and the two ways out of them.
await_ready(w0, launch) ==
    Bind(wait_for_port(w0, "web", START_WAIT_S), LAMBDA web_ok :
    Bind(IF is_backend_required(launch)
         THEN wait_for_port(w0, "backend", START_WAIT_S) ELSE TRUE,
         LAMBDA backend_ok :
    Bind(IF is_backend_required(launch)
         THEN Waited(Waited(w0, "web", START_WAIT_S, web_ok),
                     "backend", START_WAIT_S, backend_ok)
         ELSE Waited(w0, "web", START_WAIT_S, web_ok),
         LAMBDA w :
        IF ~web_ok \/ ~backend_ok
        THEN Bind(IF ~web_ok /\ ~backend_ok
                  THEN "web and backend did not become ready in time"
                  ELSE IF ~web_ok
                  THEN "web did not become ready in time"
                  ELSE "backend did not become ready in time",
                  LAMBDA reason :
                 Return(Set(push_runtime_event(stop_all(w), "error", "runtime", reason),
                            "last_error", Some(reason)),
                        FALSE, reason, "not_ready"))
        ELSE Bind(Set(Set(Set(Set(w, "running", TRUE),
                              "mode", launch.mode),
                          "started_at_ms", Some(now_ms(w))),
                      "last_error", None),
                  LAMBDA w1 :
             Bind(Set(Set(Set(Set(w1, "web_port", launch.web_port),
                              "backend_port", launch.backend_port),
                          "mongo_port", launch.mongo_port),
                      "backend_url", launch.backend_url),
                  LAMBDA w2 :
                 Return(push_runtime_event(w2, "info", "runtime",
                                           "Runtime started successfully"),
                        TRUE, "", "started"))))))

\* Lines 790-802: mongo, backend, web; `?` returns at the first Err.
spawn_sidecars(w, launch) ==
    Bind(spawn_mongo(w, launch), LAMBDA m :
        IF is_mongo_required(launch) /\ ~m.ok
        THEN Return(w, FALSE, m.err, "spawn_error")
        ELSE
    Bind(IF is_mongo_required(launch)
         THEN Set(m.w, "mongo", m.child) ELSE Set(w, "mongo", None),
         LAMBDA w1 :
    Bind(spawn_backend(w1, launch), LAMBDA b :
        IF is_backend_required(launch) /\ ~b.ok
        THEN Return(w1, FALSE, b.err, "spawn_error")
        ELSE
    Bind(IF is_backend_required(launch)
         THEN Set(b.w, "backend", b.child) ELSE Set(w1, "backend", None),
         LAMBDA w2 :
    Bind(spawn_web(w2, launch), LAMBDA e :
        IF ~e.ok
        THEN Return(w2, FALSE, e.err, "spawn_error")
        ELSE await_ready(Set(e.w, "web", e.child), launch))))))

\* Lines 772-788: stop what is left, log the request, install the plan.
install_launch(w, launch) ==
    LET w1 == push_runtime_event(stop_processes(w), "info", "runtime",
                  "Start requested: mode=" \o as_str(launch.mode)
                  \o " web_port=" \o ToString(launch.web_port)
                  \o " backend_port=" \o ToString(launch.backend_port)
                  \o " mongo_port=" \o ToString(launch.mongo_port))
    IN  [Set(Set(Set(Set(w1, "launch_config", Some(launch)),
                     "auto_restart", TRUE),
                 "restart_count", 0),
             "last_restart_ms", None)
            EXCEPT !.rlog = << >>]

\* Fault: start without the `if guard.running { ... return }` of line 689.
desktop_runtime_start_always_launches(w, input, env2) ==
    Bind(reconcile_runtime_state(w), LAMBDA w1 :
    Bind(resolve_launch(input.req, input.osenv), LAMBDA launch :
    Bind(ensure_diagnostics_state([w1 EXCEPT !.env = env2], launch.data_dir),
         LAMBDA w2 :
        IF ~input.workspace_ok
        THEN Return(w2, FALSE, "workspace root not valid", "config_error")
        ELSE spawn_sidecars(install_launch(w2, launch), launch))))

\* input = [req, osenv, workspace_ok]; env2 is the oracle of the launch
\* proper (w.env is the oracle of the reconcile pass before it).
desktop_runtime_start(w, input, env2) ==
    Bind(reconcile_runtime_state(w), LAMBDA w1 :
        IF w1.s.running
        THEN Return(push_runtime_event(w1, "info", "runtime",
                                       "Start requested while already running"),
                    TRUE, "", "already_running")
        ELSE
    Bind(resolve_launch(input.req, input.osenv), LAMBDA launch :
    Bind(ensure_diagnostics_state([w1 EXCEPT !.env = env2], launch.data_dir),
         LAMBDA w2 :
        IF ~input.workspace_ok
        THEN Return(w2, FALSE, "workspace root not valid", "config_error")
        ELSE spawn_sidecars(install_launch(w2, launch), launch))))

desktop_runtime_stop(w) ==
    LET w1 == push_runtime_event(w, "info", "runtime", "Stop requested")
        w2 == Set(stop_all(w1), "last_error", None)
    IN  Return(push_runtime_event(w2, "info", "runtime", "Runtime stopped"),
               TRUE, "", "stopped")

desktop_runtime_status(w) ==
    Return(reconcile_runtime_state(ensure_diagnostics_state(w, None)),
           TRUE, "", "status")

\* limit.unwrap_or(80).clamp(1, 300)
clamp_limit(limit) ==
    LET n == UnwrapOr(limit, DEFAULT_LIMIT)
    IN  IF n < MIN_LIMIT THEN MIN_LIMIT ELSE IF n > MAX_LIMIT THEN MAX_LIMIT ELSE n

\* Fault: the slice is taken from the front of the buffer.
diagnostics_events_from_front(events, limit) ==
    SubSeq(events, 1, IF Len(events) < clamp_limit(limit)
                      THEN Len(events) ELSE clamp_limit(limit))

\* guard.events[start..]
diagnostics_events(events, limit) ==
    LET start == saturating_sub(Len(events), clamp_limit(limit))
    IN  SubSeq(events, start + 1, Len(events))

desktop_runtime_diagnostics(w) ==
    Return(reconcile_runtime_state(ensure_diagnostics_state(w, None)),
           TRUE, "", "diagnostics")

(* ------------------------------ inputs -------------------------------- *)

\* What the operating system does during one pass of spawning: the service
\* whose spawn fails, the services whose port does not open, and whether the
\* writes of the diagnostics file succeed.  A pass stops at its first failed
\* spawn, and a restart pass at its first failure of either kind, so a pass
\* under an oracle with a failing spawn and closed ports is the pass under
\* one of the oracles below.
Oracles ==
    { o \in [ spawn_fail : {None} \cup {Some(svc) : svc \in Services},
              unready : SUBSET {"web", "backend"},
              write_ok : {TRUE} ] :
        o.spawn_fail = None \/ o.unready = {} }

\* DesktopRuntimeStartRequest (mode, profile_path, mongo_bin)
Request(mode, profile_path, mongo_bin) ==
    [mode |-> mode, profile_path |-> profile_path, mongo_bin |-> mongo_bin]

\* The environment variables start reads.
NoOsEnv ==
    [APP_RUNTIME_MODE |-> None, MONGOD_BIN |-> None, RUNTIME_PROFILE_PATH |-> None]
SetOsEnv ==
    [APP_RUNTIME_MODE |-> Some("local_fullstack"), MONGOD_BIN |-> Some(" "),
     RUNTIME_PROFILE_PATH |-> Some(LocalProfilePath)]

StartInput(req, osenv, workspace_ok) ==
    [req |-> req, osenv |-> osenv, workspace_ok |-> workspace_ok]

\* The start calls of the model: local mode without and with a database
\* binary, remote mode with a profile that moves the ports and the
\* diagnostics file, the plan taken from the environment, and an invalid
\* workspace.
StartInputs ==
    { StartInput(Request(None, None, None), NoOsEnv, TRUE),
      StartInput(Request(None, None, Some("mongod")), NoOsEnv, TRUE),
      StartInput(Request(Some(" remote_slim "), Some(RemoteProfilePath), Some("mongod")),
                 NoOsEnv, TRUE),
      StartInput(Request(None, None, None), SetOsEnv, TRUE),
      StartInput(Request(None, None, None), NoOsEnv, FALSE) }

\* diagnostics(limit): Option<u32>
Limits == {None, Some(0), Some(1), Some(2), Some(1000)}

\* An event a previous run of the application left in a diagnostics file.
OldEvent == DiagEvent("info", "runtime", "Runtime stopped")

(* ------------------------------ actions ------------------------------- *)

NoCall ==
    [ op |-> "none", ok |-> TRUE, error |-> "", path |-> "",
      status |-> None, events |-> << >>,
      spawned |-> << >>, killed |-> << >>, logged |-> << >>, waited |-> << >>,
      limit |-> None, write_ok |-> TRUE, input |-> None, plan |-> None ]

\* The record of a command that returned r.  Err carries no snapshot.
\* write_ok tells whether the command's last write of the diagnostics file
\* went through.
Called(op, r, events) ==
    [ op |-> op, ok |-> r.ok, error |-> r.error, path |-> r.path,
      status |-> IF r.ok THEN Some(snapshot_status(r.w.s)) ELSE None,
      events |-> events,
      spawned |-> r.w.spawned, killed |-> r.w.killed, logged |-> r.w.logged,
      waited |-> r.w.waited,
      limit |-> None, write_ok |-> r.w.env.write_ok, input |-> None, plan |-> None ]

Entry(env) == World(state, fs, orphans, env, now, restart_log)

CommitCall(r, call) ==
    /\ state' = r.w.s
    /\ fs' = r.w.fs
    /\ orphans' = r.w.orphans
    /\ restart_log' = r.w.rlog
    /\ last' = call
    /\ UNCHANGED <<now, threads>>

Commit(op, r, events) == CommitCall(r, Called(op, r, events))

\* The oracle that lets every spawn, port and write succeed.
OkOracle == [spawn_fail |-> None, unready |-> {}, write_ok |-> TRUE]

\* Whether a reconcile pass entered now reaches restart_missing_processes,
\* the only place where a pass consults the oracle's spawns and ports.
RestartsNow ==
    Bind(poll_process_exits(Entry(OkOracle)), LAMBDA p :
        /\ should_attempt_restart(p.w, p.exited)
        /\ ~(recently_restarted(p.w) /\ p.w.s.restart_count >= RESTART_LIMIT))

\* The oracles that make a difference to a reconcile pass entered now.
PassOracles(oracles) ==
    IF RestartsNow THEN oracles ELSE {o \in oracles : o.spawn_fail = None /\ o.unready = {}}

Start(maxlog, inputs, oracles) ==
    /\ Len(state.events) <= maxlog
    /\ \E input \in inputs, env1 \in PassOracles(oracles) :
          \E w1 \in {reconcile_runtime_state(Entry(env1))} :
             \* the launch's oracle is read only on the way to the spawns
             \E env2 \in IF w1.s.running \/ ~input.workspace_ok THEN {env1} ELSE oracles :
                \E r \in {desktop_runtime_start(Entry(env1), input, env2)} :
                   CommitCall(r, [Called("start", r, << >>) EXCEPT !.input = Some(input)])

Stop(maxlog, oracles) ==
    /\ Len(state.events) <= maxlog
    /\ \E env \in {o \in oracles : o.spawn_fail = None /\ o.unready = {}} :
          \E r \in {desktop_runtime_stop(Entry(env))} :
             Commit("stop", r, << >>)

Status(maxlog, oracles) ==
    /\ Len(state.events) <= maxlog
    /\ \E env \in PassOracles(oracles) :
          \E r \in {desktop_runtime_status(Entry(env))} :
             Commit("status", r, << >>)

Diagnostics(maxlog, oracles) ==
    /\ Len(state.events) <= maxlog
    /\ \E env \in PassOracles(oracles), limit \in Limits :
          \E r \in {desktop_runtime_diagnostics(Entry(env))} :
             CommitCall(r, [Called("diagnostics", r,
                                   diagnostics_events(r.w.s.events, limit))
                               EXCEPT !.limit = limit])

\* A child the supervisor holds a handle to exits.
ProcessExit(maxlog) ==
    /\ Len(state.events) <= maxlog
    /\ \E svc \in Services :
          /\ state[svc] = Live
          /\ state' = [state EXCEPT ![svc] = Exited]
    /\ last' = NoCall
    /\ UNCHANGED <<fs, orphans, now, restart_log, threads>>

\* The next try_wait on a running child will fail.
WaitFault(maxlog) ==
    /\ Len(state.events) <= maxlog
    /\ \E svc \in Services :
          /\ state[svc] = Live
          /\ state' = [state EXCEPT ![svc] = WaitFail]
    /\ last' = NoCall
    /\ UNCHANGED <<fs, orphans, now, restart_log, threads>>

\* A process no handle refers to exits.
OrphanExit ==
    /\ \E svc \in orphans : orphans' = orphans \ {svc}
    /\ last' = NoCall
    /\ UNCHANGED <<state, fs, now, restart_log, threads>>

Tick(maxlog, maxticks) ==
    /\ Len(state.events) <= maxlog
    /\ now < maxticks * TickMs
    /\ now' = now + TickMs
    /\ last' = NoCall
    /\ UNCHANGED <<state, fs, orphans, restart_log, threads>>

(* ------------------------------ specification ------------------------- *)

\* No command is under way: the mutex is free and every caller is idle.
Callers == 1..MaxCallers
Idle == [pc |-> "idle", op |-> "none", input |-> None, limit |-> None,
         entry |-> None, held |-> None]
NoThreads == lock = None /\ callers = [c \in Callers |-> Idle]

Init ==
    /\ NoThreads
    /\ state = DefaultState
    /\ fs = [p \in DiagPaths |->
                IF p = diagnostics_path_for_data_dir(None) THEN << >> ELSE <<OldEvent>>]
    /\ orphans = {}
    /\ now = 0
    /\ restart_log = << >>
    /\ last = NoCall

Next ==
    \/ Start(MaxLog, StartInputs, Oracles)
    \/ Stop(MaxLog, Oracles)
    \/ Status(MaxLog, Oracles)
    \/ Diagnostics(MaxLog, Oracles)
    \/ ProcessExit(MaxLog)
    \/ WaitFault(MaxLog)
    \/ OrphanExit
    \/ Tick(MaxLog, MaxTicks)

Spec == Init /\ [][Next]_vars

(* ------------------------------ watchdog runs ------------------------- *)

\* One run: a start from the initial state that succeeds, then children
\* exit, the clock advances and status calls drive the watchdog.
WatchInputs ==
    { StartInput(Request(Some("remote_slim"), None, Some("mongod")), NoOsEnv, TRUE) }

\* A restart of the watchdog run succeeds, or its spawn fails.
WatchOracles == {OkOracle, [OkOracle EXCEPT !.spawn_fail = Some("web")]}

NextW ==
    \/ Start(0, WatchInputs, {OkOracle})
    \/ Status(MaxLogW, WatchOracles)
    \/ ProcessExit(MaxLogW)
    \/ Tick(MaxLogW, MaxTicksW)

SpecW == Init /\ [][NextW]_vars

(* ------------------------------ watchdog runs with stop --------------- *)

\* The restart window goes by without a command.
WindowPasses(maxlog, maxwindows) ==
    /\ Len(state.events) <= maxlog
    /\ now < maxwindows * RESTART_WINDOW_MS
    /\ now' = now + RESTART_WINDOW_MS
    /\ last' = NoCall
    /\ UNCHANGED <<state, fs, orphans, restart_log, threads>>

\* The watchdog run past the pass in which the breaker trips, with the two commands that end or only read the run: stop,
\* and diagnostics, whose reconcile pass is the one of status.
NextG ==
    \/ Start(0, WatchInputs, {OkOracle})
    \/ Status(MaxLogG, {OkOracle})
    \/ Diagnostics(MaxLogG, {OkOracle})
    \/ Stop(MaxLogG, {OkOracle})
    \/ ProcessExit(MaxLogG)
    \/ WindowPasses(MaxLogG, MaxWindowsG)

SpecG == Init /\ [][NextG]_vars

(* ------------------------------ event log runs ----------------------- *)

\* The diagnostics files earlier runs of the application have left: n events,
\* oldest first, told apart by the file's tag and their position.
PriorLog(tag, n) ==
    [i \in 1..n |-> DiagEvent("info", "runtime", tag \o " " \o ToString(i))]

\* The default file is one event short of the cap; the file of the profile's
\* data directory is one event over it (it was written by something else
\* than persist_runtime_events, which caps what it writes).
DefaultLog == PriorLog("default", MAX_EVENTS - 1)
DataLog == PriorLog("data", MAX_EVENTS + 1)

PriorEvents ==
    {DefaultLog[i] : i \in 1..Len(DefaultLog)} \cup {DataLog[i] : i \in 1..Len(DataLog)}

\* The number of events of the buffer that this run has logged.
NewCount(events) ==
    Cardinality({i \in 1..Len(events) : events[i] \notin PriorEvents})

InitL ==
    /\ NoThreads
    /\ state = DefaultState
    /\ fs = [p \in DiagPaths |->
                IF p = diagnostics_path_for_data_dir(None) THEN DefaultLog ELSE DataLog]
    /\ orphans = {}
    /\ now = 0
    /\ restart_log = << >>
    /\ last = NoCall

\* Start calls that keep the default diagnostics file and that move to the
\* file of the profile's data directory.
LogInputs ==
    { StartInput(Request(None, None, None), NoOsEnv, TRUE),
      StartInput(Request(Some(" remote_slim "), Some(RemoteProfilePath), Some("mongod")),
                 NoOsEnv, TRUE) }

\* Everything succeeds, or the writes of the diagnostics file fail, or the
\* web port does not open.
LogOracles ==
    { OkOracle,
      [OkOracle EXCEPT !.write_ok = FALSE],
      [OkOracle EXCEPT !.unready = {"web"}] }

NextL ==
    /\ NewCount(state.events) <= MaxNewL
    /\ \/ Start(MAX_EVENTS, LogInputs, LogOracles)
       \/ Stop(MAX_EVENTS, LogOracles)
       \/ Status(MAX_EVENTS, LogOracles)
       \/ Diagnostics(MAX_EVENTS, LogOracles)
       \/ ProcessExit(MAX_EVENTS)

SpecL == InitL /\ [][NextL]_vars

(* ------------------------------ launch plans -------------------------- *)

\* The launch plan as a function of the request and the environment: every
\* combination of a mode, a profile path and a database binary in the
\* request with an empty environment, one that names the local profile and
\* one that asks for remote mode.
RemoteOsEnv ==
    [APP_RUNTIME_MODE |-> Some("desktop_remote_slim"), MONGOD_BIN |-> Some("mongod"),
     RUNTIME_PROFILE_PATH |-> Some(RemoteProfilePath)]

PlanInputs ==
    { StartInput(Request(mode, profile_path, mongo_bin), osenv, TRUE) :
        mode \in {None, Some("local_fullstack"), Some(" remote_slim "),
                  Some("desktop_remote_slim"), Some("REMOTE_SLIM")},
        profile_path \in {None, Some(RemoteProfilePath), Some(LocalProfilePath),
                          Some("/profiles/missing.json")},
        mongo_bin \in {None, Some("mongod")},
        osenv \in {NoOsEnv, SetOsEnv, RemoteOsEnv} }

InitP ==
    /\ NoThreads
    /\ state = DefaultState
    /\ fs = [p \in DiagPaths |-> << >>]
    /\ orphans = {}
    /\ now = 0
    /\ restart_log = << >>
    /\ \E input \in PlanInputs : last = [NoCall EXCEPT !.input = Some(input)]

\* Lines 694-770 applied to the input drawn.
Plan ==
    /\ last.op = "none"
    /\ last' = [last EXCEPT !.op = "plan",
                            !.plan = Some(resolve_launch(Unwrap(last.input).req,
                                                         Unwrap(last.input).osenv))]
    /\ UNCHANGED <<state, fs, orphans, now, restart_log, threads>>

NextP == Plan

SpecP == InitP /\ [][NextP]_vars

(* ------------------------------ concurrent callers -------------------- *)

\* The commands with their callers in view.  A command is split where the
\* source is: taking the mutex (manager.state.lock()), the statements up to
\* and including the reconcile pass (for stop: its first event), and the
\* rest up to the return, where the guard goes out of scope.  Both halves
\* work in place on the value behind the guard, so a caller that got at the
\* state without the mutex would show in the shared variables.

\* Fault: lock() returns at once, whoever holds the mutex.
lock_is_free_always == TRUE

\* Mutex::lock blocks until no guard is alive.
lock_is_free == lock = None

\* The statements from the lock to the end of the reconcile pass.
Prologue(op, w) ==
    CASE op = "start" -> reconcile_runtime_state(w)
      [] op = "stop" -> push_runtime_event(w, "info", "runtime", "Stop requested")
      [] OTHER -> reconcile_runtime_state(ensure_diagnostics_state(w, None))

\* The statements from there to the return.
Epilogue(op, w1, input) ==
    CASE op = "start" ->
             IF w1.s.running
             THEN Return(push_runtime_event(w1, "info", "runtime",
                                            "Start requested while already running"),
                         TRUE, "", "already_running")
             ELSE
             Bind(resolve_launch(input.req, input.osenv), LAMBDA launch :
             Bind(ensure_diagnostics_state(w1, launch.data_dir), LAMBDA w2 :
                 IF ~input.workspace_ok
                 THEN Return(w2, FALSE, "workspace root not valid", "config_error")
                 ELSE spawn_sidecars(install_launch(w2, launch), launch)))
      [] op = "stop" ->
             Return(push_runtime_event(Set(stop_all(w1), "last_error", None),
                                       "info", "runtime", "Runtime stopped"),
                    TRUE, "", "stopped")
      [] OTHER -> Return(w1, TRUE, "", op)

\* The record of the returned command, as the one-step commands write it.
Outcome(call, r) ==
    CASE call.op = "start" -> [Called("start", r, << >>) EXCEPT !.input = call.input]
      [] call.op = "diagnostics" ->
             [Called("diagnostics", r, diagnostics_events(r.w.s.events, call.limit))
                 EXCEPT !.limit = call.limit]
      [] OTHER -> Called(call.op, r, << >>)

\* The start calls and the oracles of the runs with callers.
CallInputs ==
    { StartInput(Request(Some("remote_slim"), None, None), NoOsEnv, TRUE),
      StartInput(Request(None, None, None), NoOsEnv, TRUE) }
CallLimits == {None, Some(1)}
CallOracles == {OkOracle, [OkOracle EXCEPT !.unready = {"web"}]}

\* A caller invokes a command.
Call(c) ==
    /\ callers[c].pc = "idle"
    /\ Len(state.events) <= MaxLogC
    /\ \/ \E input \in CallInputs :
             callers' = [callers EXCEPT ![c] = [Idle EXCEPT !.pc = "called", !.op = "start",
                                                           !.input = Some(input)]]
       \/ \E limit \in CallLimits :
             callers' = [callers EXCEPT ![c] = [Idle EXCEPT !.pc = "called",
                                                           !.op = "diagnostics",
                                                           !.limit = limit]]
       \/ \E op \in {"stop", "status"} :
             callers' = [callers EXCEPT ![c] = [Idle EXCEPT !.pc = "called", !.op = op]]
    /\ UNCHANGED <<state, fs, orphans, now, restart_log, last, lock>>

\* manager.state.lock(): the caller holds the guard.  entry is a history
\* field: the state the command found, with the oracle of its pass.
Lock(c) ==
    /\ callers[c].pc = "called"
    /\ lock_is_free
    /\ lock' = Some(c)
    /\ \E env \in CallOracles :
          callers' = [callers EXCEPT ![c].pc = "locked", ![c].entry = Some(Entry(env))]
    /\ UNCHANGED <<state, fs, orphans, now, restart_log, last>>

\* The world a caller inside the command works on: the shared state as it
\* is now, with the caller's own oracle and the logs of its command so far.
Held(w) ==
    [w EXCEPT !.s = state, !.fs = fs, !.orphans = orphans, !.rlog = restart_log]

Enter(c) ==
    /\ callers[c].pc = "locked"
    /\ \E w1 \in {Prologue(callers[c].op, Held(Unwrap(callers[c].entry)))} :
          /\ state' = w1.s
          /\ fs' = w1.fs
          /\ orphans' = w1.orphans
          /\ restart_log' = w1.rlog
          /\ callers' = [callers EXCEPT ![c].pc = "reconciled", ![c].held = Some(w1)]
    /\ UNCHANGED <<now, last, lock>>

\* The rest of the command; the return drops the guard.
Leave(c) ==
    /\ callers[c].pc = "reconciled"
    /\ \E r \in {Epilogue(callers[c].op, Held(Unwrap(callers[c].held)),
                           UnwrapOr(callers[c].input, StartInput(None, None, TRUE)))} :
          /\ state' = r.w.s
          /\ fs' = r.w.fs
          /\ orphans' = r.w.orphans
          /\ restart_log' = r.w.rlog
          /\ last' = Outcome(callers[c], r)
    /\ lock' = IF lock = Some(c) THEN None ELSE lock
    /\ callers' = [callers EXCEPT ![c] = Idle]
    /\ UNCHANGED now

\* A child exits.  try_wait is the only place where the supervisor sees
\* it, so an exit while a command runs is an exit before or after it.
ChildExit ==
    /\ lock = None
    /\ Len(state.events) <= MaxLogC
    /\ \E svc \in Services :
          /\ state[svc] = Live
          /\ state' = [state EXCEPT ![svc] = Exited]
    /\ UNCHANGED <<fs, orphans, now, restart_log, last, threads>>

NextC ==
    \/ \E c \in Callers : Call(c)
    \/ \E c \in Callers : Lock(c)
    \/ \E c \in Callers : Enter(c)
    \/ \E c \in Callers : Leave(c)
    \/ ChildExit

SpecC == Init /\ [][NextC]_vars

(* ------------------------------ properties ---------------------------- *)

Handles(s) == {svc \in Services : s[svc] # None}

\* The running predicate of the data model, on the handles of s.
RunningPredicate(s) ==
    /\ s.launch_config # None
    /\ s.web # None
    /\ (s.backend # None \/ Unwrap(s.launch_config).mode # LocalFullstack)
    /\ \/ s.mongo # None
       \/ Unwrap(s.launch_config).mode # LocalFullstack
       \/ Unwrap(s.launch_config).mongo_bin = None

HasEvent(log, level, source, message) ==
    \E i \in 1..Len(log) : log[i] = DiagEvent(level, source, message)

\* C1: between commands the stored running flag is true exactly when a
\* launch config is set, the web handle is present, the backend handle is
\* present or the mode is not LocalFullstack, and the database handle is
\* present or the mode is not LocalFullstack or no database binary is set.
C1_RunningIffPredicate == state.running <=> RunningPredicate(state)

\* A watchdog pass has respawned a service of a full local stack and the
\* supervisor runs again.
C1_Witness ==
    /\ last.op = "status"
    /\ last.spawned # << >>
    /\ state.running
    /\ Handles(state) = Services

\* C2: in every snapshot a command returns, running implies that the web
\* process id is present, and that the backend process id is present when
\* the snapshot's mode is LocalFullstack.
C2_RunningImpliesPids ==
    last.status # None =>
        LET snapshot == Unwrap(last.status)
        IN  snapshot.running =>
                /\ snapshot.web_pid # None
                /\ (snapshot.mode = as_str(LocalFullstack) => snapshot.backend_pid # None)

\* C3, as claimed: a start entered with the running predicate true spawns
\* nothing and returns the snapshot of the state it was entered in.
C3_StartWhileRunning ==
    [][ (last'.op = "start" /\ RunningPredicate(state))
            => /\ last'.spawned = << >>
               /\ last'.status = Some(snapshot_status(state)) ]_vars

\* C3, amended: a start entered with the running predicate true and every
\* held child still running (no exit, no failing status check for the
\* reconcile pass to find) spawns nothing, stops nothing and returns the
\* snapshot of the state it was entered in.
C3_StartWhileRunningAndAlive ==
    [][ (/\ last'.op = "start"
         /\ RunningPredicate(state)
         /\ \A svc \in Handles(state) : state[svc] = Live)
            => /\ last'.spawned = << >>
               /\ last'.killed = << >>
               /\ last'.ok
               /\ last'.status = Some(snapshot_status(state)) ]_vars

\* A start has returned by the already-running return with nothing spawned.
C3_Witness ==
    /\ last.op = "start"
    /\ last.path = "already_running"
    /\ last.spawned = << >>
    /\ last.status # None
    /\ Unwrap(last.status).running

\* A reconcile pass entered in s at clock reading t qualifies for a restart
\* attempt: auto-restart is on, a config is set, and a child is found gone
\* or the running predicate is false.
Qualifies(s) ==
    /\ s.auto_restart
    /\ s.launch_config # None
    /\ \/ \E svc \in Services : s[svc] \in {Exited, WaitFail}
       \/ ~RunningPredicate(s)

\* C4: a status call whose reconcile pass qualifies for a restart attempt,
\* with the last restart less than 90 seconds ago and restartCount >= 6,
\* turns autoRestart off, logs an error event, sets lastError and spawns no
\* process.
C4_CircuitBreaker ==
    [][ (/\ last'.op = "status"
         /\ Qualifies(state)
         /\ state.last_restart_ms # None
         /\ now - Unwrap(state.last_restart_ms) < RESTART_WINDOW_MS
         /\ state.restart_count >= RESTART_LIMIT)
            => /\ ~state'.auto_restart
               /\ HasEvent(last'.logged, "error", "watchdog", BreakerMessage)
               /\ state'.last_error = Some(BreakerMessage)
               /\ last'.spawned = << >>
               /\ state'.restart_count = state.restart_count ]_vars

\* The breaker has tripped after six restarts: the seventh failure was not
\* followed by a spawn.
C4_Witness ==
    /\ last.op = "status"
    /\ HasEvent(last.logged, "error", "watchdog", BreakerMessage)
    /\ state.restart_count = RESTART_LIMIT
    /\ ~state.auto_restart
    /\ state.web = None

\* The restarts of this run that lie less than 90 seconds before t.
RestartsInWindow(t) ==
    {i \in 1..Len(restart_log) : t - restart_log[i] < RESTART_WINDOW_MS}

\* C5: the watchdog turns autoRestart off only when 6 restarts have occurred
\* within one 90-second window; restarts outside the window do not count.
C5_RollingWindow ==
    (last.op = "status" /\ HasEvent(last.logged, "error", "watchdog", BreakerMessage))
        => Cardinality(RestartsInWindow(now)) >= RESTART_LIMIT

\* C6: a start that returns a spawn error leaves no handle present.
C6_SpawnErrorStopsSiblings ==
    (last.op = "start" /\ last.path = "spawn_error") => Handles(state) = {}

\* C7: every failure start returns is also in the event buffer as an
\* error-level event logged by that call.
C7_ErrorsAreLogged ==
    (last.op = "start" /\ ~last.ok)
        => \E i \in 1..Len(last.logged) :
              /\ last.logged[i].level = "error"
              /\ last.logged[i].message = last.error

\* The services whose readiness wait of the start proper failed.
NotReady == {"web", "backend"} \cap
    {last.waited[i].svc : i \in {j \in 1..Len(last.waited) :
        last.waited[j].timeout_s = START_WAIT_S /\ ~last.waited[j].ok}}

NotReadyMessage(failed) ==
    IF failed = {"web", "backend"} THEN "web and backend did not become ready in time"
    ELSE IF failed = {"web"} THEN "web did not become ready in time"
    ELSE "backend did not become ready in time"

\* C8: when a readiness wait of start fails, the call returns with the
\* three handles absent, running and autoRestart false, no launch config,
\* the restart counters reset, an error event logged, lastError set, and an
\* error that names exactly the services whose wait failed.
C8_ReadinessTimeout ==
    (last.op = "start" /\ NotReady # {})
        => /\ Handles(state) = {}
           /\ ~state.running
           /\ ~state.auto_restart
           /\ state.launch_config = None
           /\ state.restart_count = 0
           /\ state.last_restart_ms = None
           /\ ~last.ok
           /\ last.error = NotReadyMessage(NotReady)
           /\ last.logged # << >>
           /\ last.logged[Len(last.logged)] = DiagEvent("error", "runtime", last.error)
           /\ state.last_error = Some(last.error)

\* A start of a full local stack has spawned the three services and then
\* seen neither port open.
C8_Witness ==
    /\ last.op = "start"
    /\ NotReady = {"web", "backend"}
    /\ last.spawned = <<"mongo", "backend", "web">>

\* C9: stop returns Ok and leaves the three handles absent, running and
\* autoRestart false, restartCount 0, lastRestart, launch config and
\* lastError absent; the events it logs are the stop-requested event first
\* and the stopped event last; it spawns nothing.
C9_Stop ==
    last.op = "stop"
        => /\ last.ok
           /\ Handles(state) = {}
           /\ ~state.running
           /\ ~state.auto_restart
           /\ state.restart_count = 0
           /\ state.last_restart_ms = None
           /\ state.launch_config = None
           /\ state.last_error = None
           /\ last.logged = << DiagEvent("info", "runtime", "Stop requested"),
                               DiagEvent("info", "runtime", "Runtime stopped") >>
           /\ last.spawned = << >>

\* A stop has ended a full local stack.
C9_Witness ==
    /\ last.op = "stop"
    /\ last.killed = <<"web", "backend", "mongo">>

\* C10: autoRestart is true only while a launch config is set; a stop
\* leaves it false, and only a start turns it on.
C10_AutoRestart ==
    /\ [](state.auto_restart => state.launch_config # None)
    /\ [][ /\ last'.op = "stop" => ~state'.auto_restart
           /\ (~state.auto_restart /\ state'.auto_restart) => last'.op = "start" ]_vars

\* A status call after a stop has left autoRestart off.
C10_Witness ==
    /\ last.op = "status"
    /\ state.events # << >>
    /\ state.events[Len(state.events)] = DiagEvent("info", "runtime", "Runtime stopped")
    /\ ~state.auto_restart
    /\ ~state.running

\* The last n elements of seq (all of it when it is shorter).
MostRecent(seq, n) ==
    IF Len(seq) > n THEN SubSeq(seq, Len(seq) - n + 1, Len(seq)) ELSE seq

\* The events a command's buffer is merged from, oldest first: the content
\* of the file it moves to (when it changes the diagnostics path), the buffer
\* it was entered with, and the events it logs.
MergedEvents ==
    (IF state'.diagnostics_path # state.diagnostics_path
     THEN fs[Unwrap(state'.diagnostics_path)] ELSE << >>)
        \o state.events \o last'.logged

\* C11: the event buffer never holds more than 200 entries, and after every
\* command it is the most recent 200 (or all) of the merged event sequence:
\* the oldest entries are the ones evicted.
C11_BufferIsRecentSuffix ==
    /\ [](Len(state.events) <= MAX_EVENTS)
    /\ [][ last'.op # "none"
             => state'.events = MostRecent(MergedEvents, MAX_EVENTS) ]_vars

\* A start has moved to the over-long file of the data directory, merged it
\* with a full buffer and logged on top of it: events of three origins are in
\* the full buffer.
C11_Witness ==
    /\ last.op = "start"
    /\ Len(state.events) = MAX_EVENTS
    /\ state.events[1] \in {DefaultLog[i] : i \in 1..Len(DefaultLog)}
    /\ state.diagnostics_path = Some(diagnostics_path_for_data_dir(Some("/data")))
    /\ last.logged # << >>
    /\ NewCount(state.events) > Len(last.logged)

Min(a, b) == IF a < b THEN a ELSE b

\* The limit of a diagnostics call as used: 80 when absent, else clamped to
\* 1..300.
EffectiveLimit(limit) ==
    IF limit = None THEN DEFAULT_LIMIT
    ELSE Min(MAX_LIMIT, IF Unwrap(limit) < MIN_LIMIT THEN MIN_LIMIT ELSE Unwrap(limit))

\* C13: diagnostics(limit) returns min(N', eventCount) events, N' the limit
\* clamped to 1..300 (80 when absent) and eventCount the size of the buffer
\* after the call's reconcile pass; they are the most recent events of the
\* buffer in buffer order.
C13_DiagnosticsLimit ==
    last.op = "diagnostics"
        => LET n == Min(EffectiveLimit(last.limit), Len(state.events))
           IN  /\ Len(last.events) = n
               /\ \A i \in 1..n :
                     last.events[i] = state.events[Len(state.events) - n + i]

\* A diagnostics call without a limit has returned 80 events of a longer
\* buffer.
C13_Witness ==
    /\ last.op = "diagnostics"
    /\ last.limit = None
    /\ Len(last.events) = DEFAULT_LIMIT
    /\ Len(state.events) > DEFAULT_LIMIT
    /\ last.logged # << >>

\* The readiness waits of the start proper (35 s each), in order.
StartWaits(call) ==
    SelectSeq(call.waited, LAMBDA x : x.timeout_s = START_WAIT_S)

\* A start call that got as far as spawning, and the plan it launched.
Launched(call) ==
    call.op = "start" /\ call.path \in {"spawn_error", "not_ready", "started"}

Planned(call) == resolve_launch(Unwrap(call.input).req, Unwrap(call.input).osenv)

InSeq(seq, x) == \E i \in 1..Len(seq) : seq[i] = x

\* C14: in a run whose launch config has mode RemoteSlim the backend and the
\* database handles stay absent, neither start nor the watchdog spawns them,
\* start waits for the web port only and returns running as soon as that
\* port is ready; in a run without a database binary the database handle
\* stays absent and the database is never spawned.
C14_RemoteSlimRunsWebOnly ==
    /\ [](state.launch_config # None
            => LET config == Unwrap(state.launch_config)
               IN  /\ (config.mode = RemoteSlim
                        => state.backend = None /\ state.mongo = None)
                   /\ (config.mongo_bin = None => state.mongo = None))
    /\ []((Launched(last) /\ Planned(last).mode = RemoteSlim)
            => /\ \A i \in 1..Len(StartWaits(last)) : StartWaits(last)[i].svc = "web"
               /\ (last.path = "started"
                    <=> StartWaits(last) =
                            << [svc |-> "web", timeout_s |-> START_WAIT_S, ok |-> TRUE] >>)
               /\ (last.path = "started"
                    => state.running /\ Unwrap(last.status).running))
    /\ [][ last'.op # "none"
             => /\ ( /\ (state.launch_config # None
                            => Unwrap(state.launch_config).mode = RemoteSlim)
                      /\ (Launched(last') => Planned(last').mode = RemoteSlim) )
                     => (\A i \in 1..Len(last'.spawned) : last'.spawned[i] = "web")
                /\ ( /\ (state.launch_config # None
                            => Unwrap(state.launch_config).mongo_bin = None)
                      /\ (Launched(last') => Planned(last').mongo_bin = None) )
                     => ~InSeq(last'.spawned, "mongo") ]_vars

\* A start in remote mode that was given a database binary has spawned the
\* web sidecar alone and returned running.
C14_Witness ==
    /\ Launched(last)
    /\ Planned(last).mode = RemoteSlim
    /\ Planned(last).mongo_bin # None
    /\ last.path = "started"
    /\ last.spawned = <<"web">>
    /\ state.running
    /\ state.backend = None
    /\ state.mongo = None

\* The wait of a restart pass for the port of svc came back ready.
RestartReady(call, svc) ==
    InSeq(call.waited, [svc |-> svc, timeout_s |-> RESTART_WAIT_S, ok |-> TRUE])

\* C15: when the backend has exited, autoRestart is true, restartCount is
\* under the threshold and the web handle (and the database handle, if the
\* database is required) is live, the next status call logs a warning of
\* source backend, drops the backend handle and respawns the backend alone,
\* leaving the web and database handles as they are; when the backend port
\* becomes ready it logs the info event "Recovered sidecars: backend", adds
\* one to restartCount and returns running.
C15_BackendRestart ==
    [][ ( /\ last'.op = "status"
          /\ state.backend = Exited
          /\ state.auto_restart
          /\ state.restart_count < RESTART_LIMIT
          /\ state.launch_config # None
          /\ state.web = Live
          /\ (Unwrap(state.launch_config).mongo_bin # None => state.mongo = Live) )
        => /\ last'.logged # << >>
           /\ last'.logged[1] = DiagEvent("warn", "backend", describe_exit("backend", ExitCode))
           /\ last'.spawned \in {<< >>, <<"backend">>}
           /\ last'.killed = << >>
           /\ state'.web = state.web
           /\ state'.mongo = state.mongo
           /\ IF RestartReady(last', "backend")
              THEN /\ last'.spawned = <<"backend">>
                   /\ state'.backend = Live
                   /\ last'.logged[Len(last'.logged)] =
                          DiagEvent("info", "watchdog", "Recovered sidecars: backend")
                   /\ state'.restart_count = state.restart_count + 1
                   /\ state'.running
                   /\ Unwrap(last'.status).running
              ELSE /\ state'.backend = None
                   /\ state'.restart_count = state.restart_count ]_vars

\* A status call has brought the exited backend of a full local stack back.
C15_Witness ==
    /\ last.op = "status"
    /\ last.spawned = <<"backend">>
    /\ RestartReady(last, "backend")
    /\ state.restart_count = 1
    /\ state.running
    /\ Handles(state) = Services

\* The services a restart pass has brought back: spawned and, for web and
\* backend, with the port ready.
Recovered(call) ==
    {svc \in Services : /\ InSeq(call.spawned, svc)
                        /\ svc = "mongo" \/ RestartReady(call, svc)}

\* C18: whenever the reconcile pass of a status call has brought back at
\* least one service, restartCount is incremented, lastRestart is stamped
\* and an info event of the watchdog is logged, also when a later service
\* of the pass fails to restart.
C18_RestartsAreCounted ==
    [][ (last'.op = "status" /\ Recovered(last') # {})
        => /\ state'.restart_count = state.restart_count + 1
           /\ state'.last_restart_ms = Some(now)
           /\ \E i \in 1..Len(last'.logged) :
                 /\ last'.logged[i].level = "info"
                 /\ last'.logged[i].source = "watchdog" ]_vars

\* The services a restart pass has set out to restart, in the order of its
\* "Restarting ... sidecar" events.
RestartingMessage(svc) == "Restarting " \o svc \o " sidecar"

Attempted(call) ==
    LET notes == SelectSeq(call.logged,
                     LAMBDA e : \E svc \in Services :
                         e = DiagEvent("warn", "watchdog", RestartingMessage(svc)))
    IN  [i \in 1..Len(notes) |->
            CHOOSE svc \in Services : notes[i].message = RestartingMessage(svc)]

Rank(svc) == CASE svc = "web" -> 1 [] svc = "backend" -> 2 [] svc = "mongo" -> 3

\* The error of the restart of svc, if it failed: its spawn failed or its
\* port did not become ready; None if it did not fail.
RestartError(call, svc) ==
    IF ~InSeq(call.spawned, svc)
    THEN Some("failed to start " \o svc \o " sidecar: os error")
    ELSE IF InSeq(call.waited, [svc |-> svc, timeout_s |-> RESTART_WAIT_S, ok |-> FALSE])
    THEN Some(svc \o " did not become ready after restart")
    ELSE None

\* C20: the restart pass of a status call restarts services in the order
\* web, backend, database; the first spawn failure or readiness timeout ends
\* the pass, is logged as an error event and stored in lastError, stops no
\* process and leaves every handle that was live before the failing step
\* present.
C20_RestartOrderAndAbort ==
    [][ last'.op = "status"
        => LET tried == Attempted(last')
           IN  /\ \A i, j \in 1..Len(tried) : i < j => Rank(tried[i]) < Rank(tried[j])
               /\ \A i \in 1..Len(tried) :
                     LET err == RestartError(last', tried[i])
                     IN  IF err = None THEN state'[tried[i]] = Live
                         ELSE /\ i = Len(tried)
                              /\ last'.logged[Len(last'.logged)] =
                                     DiagEvent("error", "watchdog",
                                               "Auto-restart failed: " \o Unwrap(err))
                              /\ state'.last_error =
                                     Some("Auto-restart failed: " \o Unwrap(err))
                              /\ state'[tried[i]] = None
                              /\ last'.killed = << >>
                              /\ \A svc \in Services \ {tried[i]} :
                                     state[svc] = Live => state'[svc] = Live ]_vars

\* With all three services missing, a pass has restarted web, failed on the
\* backend and left the database alone.
C20_Witness ==
    /\ last.op = "status"
    /\ Attempted(last) = <<"web", "backend">>
    /\ RestartError(last, "backend") # None
    /\ state.web = Live
    /\ state.mongo = None
    /\ state.launch_config # None
    /\ Unwrap(state.launch_config).mongo_bin # None
    /\ Unwrap(state.launch_config).mode = LocalFullstack

\* The profile an input's start loads.
ProfileOf(input) ==
    load_runtime_profile(
        Some(UnwrapOr(OrElse(input.req.profile_path, input.osenv.RUNTIME_PROFILE_PATH), "")))

\* C16: when the mode resolves to LocalFullstack the backend URL of the
\* launch is http://127.0.0.1:<backendPort>, backendPort being the profile's
\* backend port or 8080, whatever backendUrl the profile holds; the
\* profile's backendUrl (or http://127.0.0.1:8080 without one) is the
\* backend URL only when the mode is RemoteSlim.
C16_BackendUrl ==
    last.op = "plan"
    => LET plan == Unwrap(last.plan)
           profile == ProfileOf(Unwrap(last.input))
           ports == UnwrapOr(profile.local_ports, DefaultPorts)
       IN  IF plan.mode = LocalFullstack
           THEN /\ plan.backend_port = UnwrapOr(ports.backend, DEFAULT_BACKEND_PORT)
                /\ plan.backend_url \in {"http://127.0.0.1:8080", "http://127.0.0.1:9090"}
                /\ plan.backend_url = "http://127.0.0.1:" \o ToString(plan.backend_port)
           ELSE plan.backend_url = UnwrapOr(profile.backend_url, "http://127.0.0.1:8080")

\* A plan in local mode whose profile holds a backendUrl and a backend port
\* of its own.
C16_Witness ==
    /\ last.op = "plan"
    /\ Unwrap(last.plan).mode = LocalFullstack
    /\ ProfileOf(Unwrap(last.input)).backend_url # None
    /\ Unwrap(last.plan).backend_url = "http://127.0.0.1:9090"

\* The reconcile passes held in the buffer whose restart attempt failed by a
\* spawn error or a readiness timeout.
FailedPasses ==
    Cardinality({i \in 1..Len(state.events) :
                    /\ state.events[i].level = "error"
                    /\ state.events[i].source = "watchdog"
                    /\ state.events[i].message # BreakerMessage})

\* C19: repeated failure trips the breaker after a bounded number of passes:
\* once more than 6 reconcile passes of one run have failed to restart a
\* service within one 90-second window (here: at one clock reading),
\* autoRestart is false.
C19_RepeatedFailureTripsBreaker ==
    (now = 0 /\ FailedPasses > RESTART_LIMIT) => ~state.auto_restart

\* The callers inside the locked region.
Inside == {c \in Callers : callers[c].pc \in {"locked", "reconciled"}}

\* What the command of a caller makes of the state it found when it is run
\* in one piece.
Sequential(call) ==
    CASE call.op = "start" ->
             desktop_runtime_start(Unwrap(call.entry), Unwrap(call.input),
                                   Unwrap(call.entry).env)
      [] call.op = "stop" -> desktop_runtime_stop(Unwrap(call.entry))
      [] call.op = "status" -> desktop_runtime_status(Unwrap(call.entry))
      [] call.op = "diagnostics" -> desktop_runtime_diagnostics(Unwrap(call.entry))

\* C17: with concurrent callers the commands are serialized: at most one
\* caller is inside the locked region, the state is touched by nobody else
\* while it is there, and the command returns, and leaves the state, as if
\* it had run alone on the state it found when it took the lock.
C17_Serialized ==
    /\ [](Cardinality(Inside) <= 1 /\ (lock = None <=> Inside = {}))
    /\ [][ \A c \in Callers :
              /\ (c \in Inside /\ callers'[c] = callers[c])
                    => UNCHANGED <<state, fs, orphans, restart_log>>
              /\ (callers[c].pc = "reconciled" /\ callers'[c].pc = "idle")
                    => LET r == Sequential(callers[c])
                       IN  /\ state' = r.w.s
                           /\ fs' = r.w.fs
                           /\ orphans' = r.w.orphans
                           /\ restart_log' = r.w.rlog
                           /\ last' = Outcome(callers[c], r) ]_vars

\* After a start has returned running, one caller is half-way through a
\* stop while another has called status and waits for the mutex.
C17_Witness ==
    /\ last.op = "start"
    /\ last.path = "started"
    /\ \E c, d \in Callers :
          /\ lock = Some(c)
          /\ callers[c].pc = "reconciled"
          /\ callers[c].op = "stop"
          /\ callers[d].pc = "called"
          /\ callers[d].op = "status"

\* C21: a status or diagnostics call spawns a process only when its
\* reconcile pass finds autoRestart true, a launch config set, and a process
\* exited or the running predicate false; with autoRestart false (after stop,
\* or after the breaker) such a call spawns nothing and running is false.
C21_RestartGate ==
    /\ [](~state.auto_restart => ~state.running)
    /\ [][ last'.op \in {"status", "diagnostics"}
             => /\ (last'.spawned # << >> => Qualifies(state))
                /\ (~state.auto_restart
                      => /\ last'.spawned = << >>
                         /\ ~state'.auto_restart
                         /\ ~state'.running
                         /\ ~Unwrap(last'.status).running) ]_vars

\* A diagnostics call after the breaker has tripped: the web sidecar is
\* missing, the launch config is still set, and nothing was spawned.
C21_Witness ==
    /\ last.op = "diagnostics"
    /\ last.logged = << >>
    /\ last.spawned = << >>
    /\ ~state.auto_restart
    /\ state.launch_config # None
    /\ state.web = None
    /\ state.restart_count = RESTART_LIMIT

\* The services a launch spawns, in the order of lines 790-802.
LaunchOrder(config) ==
    (IF config.mode = LocalFullstack /\ config.mongo_bin # None THEN <<"mongo">> ELSE << >>)
    \o (IF config.mode = LocalFullstack THEN <<"backend">> ELSE << >>)
    \o <<"web">>

\* C22: when start returns success other than by the already-running path,
\* running is true, startedAt is stamped, lastError is absent, autoRestart is
\* true, restartCount is 0, lastRestart is absent, the launch config is set,
\* the web handle is present, the backend handle is present iff the mode is
\* LocalFullstack, the database handle is present iff the mode is
\* LocalFullstack and a database binary is configured, and the launch has
\* spawned database, backend, web in that order.
C22_StartedState ==
    (last.op = "start" /\ last.ok /\ last.path # "already_running")
    => /\ last.path = "started"
       /\ state.running
       /\ state.started_at_ms = Some(now)
       /\ state.last_error = None
       /\ state.auto_restart
       /\ state.restart_count = 0
       /\ state.last_restart_ms = None
       /\ state.launch_config = Some(Planned(last))
       /\ state.web # None
       /\ (state.backend # None <=> Planned(last).mode = LocalFullstack)
       /\ (state.mongo # None <=> (/\ Planned(last).mode = LocalFullstack
                                    /\ Planned(last).mongo_bin # None))
       /\ MostRecent(last.spawned, Len(LaunchOrder(Planned(last)))) = LaunchOrder(Planned(last))
       /\ last.status = Some(snapshot_status(state))

\* A full local stack with a database has started after an earlier start
\* had failed on the web port.
C22_Witness ==
    /\ last.op = "start"
    /\ last.path = "started"
    /\ last.spawned = <<"mongo", "backend", "web">>
    /\ Handles(state) = Services
    /\ HasEvent(state.events, "error", "runtime", "web did not become ready in time")

\* C23: no orphaned or duplicate sidecars: every process the supervisor has
\* spawned and has neither killed nor seen exited is referred to by the
\* handle of its service, so no live process is without a handle.
C23_NoOrphans == orphans = {}

\* C24: whenever running is true, the mode, the three ports and the
\* backendUrl of the status snapshot are those of the current launch config,
\* and startedAt is present.
C24_SnapshotMatchesLaunch ==
    state.running
    => /\ state.launch_config # None
       /\ LET config == Unwrap(state.launch_config)
              status == snapshot_status(state)
          IN  /\ status.mode = as_str(config.mode)
              /\ status.web_port = config.web_port
              /\ status.backend_port = config.backend_port
              /\ status.mongo_port = config.mongo_port
              /\ status.backend_url = config.backend_url
              /\ status.started_at_ms # None

====
